---- MODULE Spec2Model ----
\* securenet: an elligator-masked key exchange (Wrap / WrapWithKeys) followed by
\* an authenticated-encryption framing layer (conn.Read / conn.Write / ReadByte /
\* UnreadByte) over a raw ordered byte stream.  Two endpoints, 1 and 2, wrap the
\* two ends of one raw connection.
EXTENDS Integers, Sequences, FiniteSets, TLC

\* ---------------------------------------------------------------- sizes
\* var nonce [24]byte
NonceSize == 24
\* box.Overhead
Overhead == 16
\* length := make([]byte, 4)
LenSize == 4
\* var serverKeyElligator [32]byte
KeySize == 32

\* ---------------------------------------------------------------- bounds
\* random scalars are drawn from 1..MaxScalar
MaxScalar == 3
\* a Write carries 0..MaxLen plaintext bytes
MaxLen == 2
\* number of Write calls of the writing endpoint
MaxWrites == 2
\* number of Read / ReadByte / UnreadByte calls of the reading endpoint
MaxReads == 3
\* a Read is given a buffer of 0..MaxBuf bytes
MaxBuf == 2
\* number of alterations the network makes to bytes in flight
MaxTamper == 1
\* the raw stream hands over pieces of MaxChunk bytes, or all it has
MaxChunk == 7

Peer == {1, 2}
Other(p) == 3 - p
\* the data phase is exercised in one direction: Writer calls Write, Reader
\* calls the read family
Writer == 1
Reader == 2
Scalars == 1..MaxScalar

Min(a, b) == IF a < b THEN a ELSE b
Max(a, b) == IF a > b THEN a ELSE b
Zeros(n) == [i \in 1..n |-> 0]
Take(s, n) == SubSeq(s, 1, Min(n, Len(s)))
Drop(s, n) == SubSeq(s, Min(n, Len(s)) + 1, Len(s))
IsPrefix(s, t) == Len(s) <= Len(t) /\ s = SubSeq(t, 1, Len(s))

\* ---------------------------------------------------------------- key codec
\* The curve is modelled by the subgroup of order 11 of the integers modulo 23,
\* generated by 16; Diffie-Hellman is exponentiation in it, hence commutative.
RECURSIVE PowMod(_, _)
PowMod(x, e) == IF e = 0 THEN 1 ELSE (x * PowMod(x, e - 1)) % 23

\* a 32-byte array holding a field element: little-endian, reduced modulo 23
FeToBytes(v) == [i \in 1..KeySize |-> IF i = 1 THEN v ELSE 0]
RECURSIVE FeFromBytesAt(_, _)
FeFromBytesAt(bytes, i) ==
    IF i > Len(bytes) THEN 0
    ELSE (bytes[i] + 256 * FeFromBytesAt(bytes, i + 1)) % 23
FeFromBytes(bytes) == FeFromBytesAt(bytes, 1)

\* the public point of a private scalar
BasePoint(priv) == PowMod(16, priv)
\* extra25519.RepresentativeToPublicKey: total, and two to one (r and -r give
\* the same point), so that only some points are the image of a representative
ElligatorMap(r) == (r * r + 1) % 23
RepresentativeToPublicKey(bytes) == ElligatorMap(FeFromBytes(bytes))
\* the representative of a point is the preimage in the lower half of the field
HasRepresentative(pub) == \E r \in 0..11 : ElligatorMap(r) = pub
PointToRepresentative(pub) == CHOOSE r \in 0..11 : ElligatorMap(r) = pub

\* extra25519.ScalarBaseMult(&pub, &elligator, &priv): false when the point has
\* no representative, and then pub and elligator are left as they were
ScalarBaseMult(pub, elligator, priv) ==
    IF HasRepresentative(BasePoint(priv))
    THEN [ok |-> TRUE, pub |-> BasePoint(priv),
          elligator |-> PointToRepresentative(BasePoint(priv))]
    ELSE [ok |-> FALSE, pub |-> pub, elligator |-> elligator]

\* box.Precompute(&shared, &serverKey, &priv)
Precompute(serverKey, priv) == PowMod(serverKey, priv)

\* ---------------------------------------------------------------- AEAD
\* rand.Read(nonce[:]): the r-th draw of the random source
NonceBytes(r) == [i \in 1..NonceSize |-> r]

RECURSIVE SumSeq(_)
SumSeq(s) == IF s = <<>> THEN 0 ELSE s[1] + SumSeq(Tail(s))

\* box.SealAfterPrecomputation([]byte{}, msg, &nonce, key): a 16-byte tag
\* followed by the masked message
SealAfterPrecomputation(msg, nonce, key) ==
    [i \in 1..(Len(msg) + Overhead) |->
        IF i <= Overhead THEN (key + nonce[1] + SumSeq(msg)) % 256
        ELSE (msg[i - Overhead] + key + nonce[1]) % 256]

\* box.OpenAfterPrecomputation([]byte{}, bx, &nonce, key): succeeds only on a
\* box that some seal produced under this key and nonce (ideal AEAD); sealed is
\* the log of the seals performed so far
OpenAfterPrecomputation(bx, nonce, key, sealed) ==
    LET hits == {i \in 1..Len(sealed) : /\ sealed[i].key = key
                                        /\ sealed[i].nonce = nonce
                                        /\ sealed[i].box = bx}
    IN IF hits = {} THEN [success |-> FALSE, msg |-> <<>>]
       ELSE [success |-> TRUE, msg |-> sealed[CHOOSE i \in hits : TRUE].msg]

\* a length field written most significant byte first
PutUint32BigEndian(v) == [i \in 1..LenSize |-> (v \div (256 ^ (LenSize - i))) % 256]

\* binary.LittleEndian.PutUint32 / Uint32
PutUint32(v) == [i \in 1..LenSize |-> (v \div (256 ^ (i - 1))) % 256]
Uint32(bytes) == bytes[1] + 256 * bytes[2] + 65536 * bytes[3] + 16777216 * bytes[4]

\* ---------------------------------------------------------------- state
VARIABLES
    pc,         \* [Peer -> position of the endpoint's Wrap call]
    keys,       \* [Peer -> pub, priv, elligator of GenerateKeys / Wrap]
    werr,       \* [Peer -> the error Wrap returned]
    retried,    \* [Peer -> GenerateKeys drew a scalar that has no representative]
    conn,       \* [Peer -> the conn value Wrap returned, NilConn before]
    out,        \* [Peer -> every byte the endpoint wrote to the raw stream]
    inb,        \* [Peer -> every byte that reached the endpoint's raw stream]
    bpos,       \* [Peer -> number of bytes of inb taken out of bufferedRead]
    rpos,       \* [Peer -> number of bytes of inb bufferedRead has pulled]
    closed,     \* [Peer -> the endpoint's sending direction is shut down]
    rnd,        \* number of nonces the random source has returned
    sealed,     \* log of the seals performed: key, nonce, msg, box
    frames,     \* log of the frames written by Writer: start offset, plaintext
    written,    \* concatenation of the buffers of Writer's successful Writes
    delivered,  \* concatenation of the bytes handed to Reader's caller
    wlast,      \* outcome of Writer's latest Write call
    log,        \* outcomes of Reader's Read / ReadByte / UnreadByte calls, in order
    nwrites, nreads, ntamper

vars == <<pc, keys, werr, retried, conn, out, inb, bpos, rpos, closed, rnd,
          sealed, frames, written, delivered, wlast, log, nwrites, nreads, ntamper>>

hsVars == <<pc, keys, werr, retried, conn>>
dataVars == <<rnd, sealed, frames, written, delivered, wlast, log, nwrites, nreads>>

NilConn == [nil |-> TRUE]
NoCall == [op |-> "none"]

Init ==
    /\ pc = [p \in Peer |-> "generate"]
    /\ keys = [p \in Peer |-> [pub |-> 0, priv |-> 0, elligator |-> 0]]
    /\ werr = [p \in Peer |-> "nil"]
    /\ retried = [p \in Peer |-> FALSE]
    /\ conn = [p \in Peer |-> NilConn]
    /\ out = [p \in Peer |-> <<>>]
    /\ inb = [p \in Peer |-> <<>>]
    /\ bpos = [p \in Peer |-> 0]
    /\ rpos = [p \in Peer |-> 0]
    /\ closed = [p \in Peer |-> FALSE]
    /\ rnd = 0
    /\ sealed = <<>>
    /\ frames = <<>>
    /\ written = <<>>
    /\ delivered = <<>>
    /\ wlast = NoCall
    /\ log = <<>>
    /\ nwrites = 0
    /\ nreads = 0
    /\ ntamper = 0

\* ---------------------------------------------------------------- raw stream
\* an endpoint that reads past what the handshake's reader has pulled, as with
\* a new bufio.Reader on the raw stream
AvailFresh(p) == SubSeq(inb[p], rpos[p] + 1, Len(inb[p]))

\* the bytes the endpoint can still obtain from bufferedRead
Avail(p) == SubSeq(inb[p], bpos[p] + 1, Len(inb[p]))
\* the raw stream ends after them
Ended(p) == closed[Other(p)]

\* a read that reports no error when the stream ends early, the rest of buf
\* left zero
ReadPadded(s, off, n, ended) ==
    IF Len(s) - off >= n
    THEN [err |-> "nil", n |-> n, data |-> SubSeq(s, off + 1, off + n), used |-> off + n]
    ELSE IF ended
    THEN [err |-> "nil", n |-> n,
          data |-> SubSeq(s, off + 1, Len(s)) \o Zeros(n - (Len(s) - off)), used |-> Len(s)]
    ELSE [err |-> "block", n |-> 0, data |-> <<>>, used |-> off]

\* a read that returns with what has arrived, the rest of buf left zero
ReadShort(s, off, n, ended) ==
    IF Len(s) - off >= n
    THEN [err |-> "nil", n |-> n, data |-> SubSeq(s, off + 1, off + n), used |-> off + n]
    ELSE IF Len(s) > off
    THEN [err |-> "nil", n |-> Len(s) - off,
          data |-> SubSeq(s, off + 1, Len(s)) \o Zeros(n - (Len(s) - off)), used |-> Len(s)]
    ELSE IF ended
    THEN [err |-> "EOF", n |-> 0, data |-> <<>>, used |-> Len(s)]
    ELSE [err |-> "block", n |-> 0, data |-> <<>>, used |-> off]

\* io.ReadFull(c.bufferedRead, buf) with len(buf) = n, on the stream s of which
\* off bytes are already taken: all n bytes, or an error when the stream ends
\* first, or "block" while the bytes are neither there nor ruled out
ReadFull(s, off, n, ended) ==
    IF Len(s) - off >= n
    THEN [err |-> "nil", n |-> n, data |-> SubSeq(s, off + 1, off + n), used |-> off + n]
    ELSE IF ended
    THEN [err |-> IF Len(s) = off THEN "EOF" ELSE "ErrUnexpectedEOF",
          n |-> Len(s) - off, data |-> <<>>, used |-> Len(s)]
    ELSE [err |-> "block", n |-> 0, data |-> <<>>, used |-> off]

\* what bufferedRead may have pulled from the raw stream once the endpoint has
\* taken `taken` bytes: just what was asked for, or all that had arrived
Pulled(p, taken) == {Max(rpos[p], taken), Len(inb[p])}

\* ---------------------------------------------------------------- key generation
\* a GenerateKeys that leaves its loop after the first draw, whatever
\* ScalarBaseMult answered
GenerateKeysNoRetry(p, s) ==
    /\ pc[p] = "generate"
    /\ LET r == ScalarBaseMult(keys[p].pub, keys[p].elligator, s)
       IN /\ keys' = [keys EXCEPT ![p] = [pub |-> r.pub, priv |-> s,
                                          elligator |-> r.elligator]]
          /\ pc' = [pc EXCEPT ![p] = "write"]
          /\ retried' = [retried EXCEPT ![p] = @ \/ ~r.ok]
    /\ UNCHANGED <<werr, conn, out, inb, bpos, rpos, closed, ntamper>>
    /\ UNCHANGED dataVars

\* one turn of the loop of GenerateKeys, drawing the scalar s
GenerateKeys(p, s) ==
    /\ pc[p] = "generate"
    /\ LET r == ScalarBaseMult(keys[p].pub, keys[p].elligator, s)
       IN /\ keys' = [keys EXCEPT ![p] = [pub |-> r.pub, priv |-> s,
                                          elligator |-> r.elligator]]
          /\ pc' = [pc EXCEPT ![p] = IF r.ok THEN "write" ELSE "generate"]
          /\ retried' = [retried EXCEPT ![p] = @ \/ ~r.ok]
    /\ UNCHANGED <<werr, conn, out, inb, bpos, rpos, closed, ntamper>>
    /\ UNCHANGED dataVars

\* io.ReadFull(rand.Reader, priv[:]) fails: GenerateKeys and Wrap return err
GenerateKeysEntropyFailure(p) ==
    /\ pc[p] = "generate"
    /\ pc' = [pc EXCEPT ![p] = "failed"]
    /\ werr' = [werr EXCEPT ![p] = "entropy"]
    /\ UNCHANGED <<keys, retried, conn, out, inb, bpos, rpos, closed, ntamper>>
    /\ UNCHANGED dataVars

\* ---------------------------------------------------------------- handshake
\* a WrapWithKeys that sends its representative only once the peer's has arrived
WrapWithKeysWriteSecond(p) ==
    /\ pc[p] = "write" /\ Len(inb[p]) >= KeySize
    /\ pc' = [pc EXCEPT ![p] = "read"]
    /\ out' = [out EXCEPT ![p] = @ \o FeToBytes(keys[p].elligator)]
    /\ inb' = [inb EXCEPT ![Other(p)] = @ \o FeToBytes(keys[p].elligator)]
    /\ UNCHANGED <<werr, keys, retried, conn, bpos, rpos, closed, ntamper>>
    /\ UNCHANGED dataVars

\* a WrapWithKeys that goes on to its read whatever oc.Write returned
WrapWithKeysWriteUnchecked(p) ==
    /\ pc[p] = "write"
    /\ pc' = [pc EXCEPT ![p] = "read"]
    /\ IF closed[p]
       THEN UNCHANGED <<out, inb>>
       ELSE /\ out' = [out EXCEPT ![p] = @ \o FeToBytes(keys[p].elligator)]
            /\ inb' = [inb EXCEPT ![Other(p)] = @ \o FeToBytes(keys[p].elligator)]
    /\ UNCHANGED <<werr, keys, retried, conn, bpos, rpos, closed, ntamper>>
    /\ UNCHANGED dataVars

\* WrapWithKeys, first half: oc.Write(elligator[:])
WrapWithKeysWrite(p) ==
    /\ pc[p] = "write"
    /\ IF closed[p]
       THEN /\ pc' = [pc EXCEPT ![p] = "failed"]
            /\ werr' = [werr EXCEPT ![p] = "write"]
            /\ UNCHANGED <<out, inb>>
       ELSE /\ pc' = [pc EXCEPT ![p] = "read"]
            /\ out' = [out EXCEPT ![p] = @ \o FeToBytes(keys[p].elligator)]
            /\ inb' = [inb EXCEPT ![Other(p)] = @ \o FeToBytes(keys[p].elligator)]
            /\ UNCHANGED werr
    /\ UNCHANGED <<keys, retried, conn, bpos, rpos, closed, ntamper>>
    /\ UNCHANGED dataVars

\* the conn value WrapWithKeys builds
NewConn(pub, priv, serverKey, shared) ==
    [lastRead |-> Zeros(1), isUnread |-> FALSE, privateKey |-> priv,
     PublicKey |-> pub, ServerPublicKey |-> serverKey, sharedKey |-> shared,
     buffer |-> <<>>]

\* a handshake that may read the peer's representative before it has written
\* its own
AtReadEarly(p) == pc[p] \in {"write", "read"}
\* a key derivation from the endpoint's own public key
DeriveSharedOwn(pub, serverKey, priv) == Precompute(pub, priv)

\* the read of the peer's representative comes after the write of the own one
AtRead(p) == pc[p] = "read"
\* box.Precompute(&shared, &serverKey, &priv) in WrapWithKeys
DeriveShared(pub, serverKey, priv) == Precompute(serverKey, priv)

\* WrapWithKeys, second half: io.ReadFull(bRead, serverKeyElligator[:]), then
\* the key derivation and the conn value
WrapWithKeysRead(p) ==
    /\ AtRead(p)
    /\ LET r == ReadFull(Avail(p), 0, KeySize, Ended(p))
           serverKey == RepresentativeToPublicKey(r.data)
           shared == DeriveShared(keys[p].pub, serverKey, keys[p].priv)
       IN /\ r.err # "block"
          /\ bpos' = [bpos EXCEPT ![p] = @ + r.used]
          /\ \E k \in Pulled(p, bpos[p] + r.used) : rpos' = [rpos EXCEPT ![p] = k]
          /\ IF r.err # "nil"
             THEN /\ pc' = [pc EXCEPT ![p] = "failed"]
                  /\ werr' = [werr EXCEPT ![p] = r.err]
                  /\ UNCHANGED conn
             ELSE /\ pc' = [pc EXCEPT ![p] = "ready"]
                  /\ conn' = [conn EXCEPT ![p] =
                                 NewConn(keys[p].pub, keys[p].priv, serverKey, shared)]
                  /\ UNCHANGED werr
    /\ UNCHANGED <<keys, retried, out, inb, closed, ntamper>>
    /\ UNCHANGED dataVars

\* GetPublicKey / GetServerPublicKey
GetPublicKey(c) == c.PublicKey
GetServerPublicKey(c) == c.ServerPublicKey

\* ---------------------------------------------------------------- network
\* the endpoint's sending direction is shut down: its writes fail, and its
\* peer's reads fail once the bytes that arrived are used up
Close(p) ==
    /\ ~closed[p]
    /\ closed' = [closed EXCEPT ![p] = TRUE]
    /\ UNCHANGED <<out, inb, bpos, rpos, ntamper>>
    /\ UNCHANGED hsVars
    /\ UNCHANGED dataVars

FlipBit(v) == IF v % 2 = 0 THEN v + 1 ELSE v - 1

\* one bit of byte i of the stream towards p is flipped in flight
Tamper(p, i) ==
    /\ ntamper < MaxTamper
    /\ i > rpos[p] /\ i <= Len(inb[p])
    /\ inb' = [inb EXCEPT ![p][i] = FlipBit(@)]
    /\ ntamper' = ntamper + 1
    /\ UNCHANGED <<out, bpos, rpos, closed>>
    /\ UNCHANGED hsVars
    /\ UNCHANGED dataVars

\* the raw stream towards p fails after n of the bytes in flight: the rest
\* never arrives, and the stream is at its end for both endpoints
Cut(p, n) ==
    /\ ~closed[Other(p)]
    /\ rpos[p] <= n /\ n < Len(inb[p])
    /\ inb' = [inb EXCEPT ![p] = Take(@, n)]
    /\ closed' = [q \in Peer |-> TRUE]
    /\ UNCHANGED <<out, bpos, rpos, ntamper>>
    /\ UNCHANGED hsVars
    /\ UNCHANGED dataVars

\* the representative in flight towards p is replaced by the representative of
\* another key pair, of private scalar s
Substitute(p, s) ==
    /\ ntamper < MaxTamper
    /\ rpos[p] = 0 /\ Len(inb[p]) >= KeySize
    /\ HasRepresentative(BasePoint(s))
    /\ inb' = [inb EXCEPT ![p] =
                  FeToBytes(PointToRepresentative(BasePoint(s))) \o Drop(@, KeySize)]
    /\ inb'[p] # inb[p]
    /\ ntamper' = ntamper + 1
    /\ UNCHANGED <<out, bpos, rpos, closed>>
    /\ UNCHANGED hsVars
    /\ UNCHANGED dataVars

\* ---------------------------------------------------------------- framing
\* what a read-family method hands back: the results n and err, the number of
\* stream bytes it took, the bytes it copied into the caller's buffer, and the
\* fields buffer and isUnread of its receiver c as the method left them
Ret(n, err, used, data, buffer, isUnread) ==
    [n |-> n, err |-> err, used |-> used, data |-> data, buffer |-> buffer,
     isUnread |-> isUnread]

\* an unbufferedRead that ignores the result of the payload's open
DataAuthIgnored(success) == "nil"

\* if !success { err = errors.New("OpenAfterPrecomputation failed on ...") }
HeaderAuth(success) == IF success THEN "nil" ELSE "header auth"
DataAuth(success) == IF success THEN "nil" ELSE "data auth"

\* unbufferedRead returns early with error e after the exact read r: n is the
\* count of that read, nothing is copied
Failed(c, r, e) == Ret(r.n, e, r.used, <<>>, c.buffer, c.isUnread)

\* The steps of func (c conn) unbufferedRead(b []byte), last to first; blen is
\* len(b), s the stream, sl the log of seals.
\* copied := copy(b, decrypted), and the rest of decrypted goes to c.buffer;
\* copy(c.buffer, decrypted[copied:]) fills a buffer made of just that size,
\* so "Copied wrong amount of bytes" cannot arise.  n is still the count of
\* the last exact read r4.
CopyOut(c, blen, r4, decrypted) ==
    IF Min(blen, Len(decrypted)) < Len(decrypted)
    THEN Ret(r4.n, "nil", r4.used, Take(decrypted, blen), Drop(decrypted, blen),
             c.isUnread)
    ELSE Ret(r4.n, "nil", r4.used, decrypted, c.buffer, c.isUnread)

\* decrypted, success := box.OpenAfterPrecomputation(..., data, &nonce, ...)
OpenData(c, blen, r4, o2) ==
    IF DataAuth(o2.success) # "nil" THEN Failed(c, r4, DataAuth(o2.success))
    ELSE CopyOut(c, blen, r4, o2.msg)

\* data := make([]byte, length); io.ReadFull(c.bufferedRead, data)
ReadData(c, blen, sl, nonce, r4) ==
    IF r4.err # "nil" THEN Failed(c, r4, r4.err)
    ELSE OpenData(c, blen, r4,
                  OpenAfterPrecomputation(r4.data, nonce, c.sharedKey, sl))

\* io.ReadFull(c.bufferedRead, nonce[:]), the second nonce
ReadPayloadNonce(c, blen, s, ended, sl, length, r3) ==
    IF r3.err # "nil" THEN Failed(c, r3, r3.err)
    ELSE ReadData(c, blen, sl, r3.data, ReadFull(s, r3.used, length, ended))

\* lengthCode, success := box.OpenAfterPrecomputation(..., header, &nonce, ...)
\* and length := binary.LittleEndian.Uint32(lengthCode)
OpenHeader(c, blen, s, ended, sl, r2, o1) ==
    IF HeaderAuth(o1.success) # "nil" THEN Failed(c, r2, HeaderAuth(o1.success))
    ELSE ReadPayloadNonce(c, blen, s, ended, sl, Uint32(o1.msg),
                          ReadFull(s, r2.used, NonceSize, ended))

\* header := make([]byte, box.Overhead+4); io.ReadFull(c.bufferedRead, header)
ReadHeader(c, blen, s, ended, sl, nonce, r2) ==
    IF r2.err # "nil" THEN Failed(c, r2, r2.err)
    ELSE OpenHeader(c, blen, s, ended, sl, r2,
                    OpenAfterPrecomputation(r2.data, nonce, c.sharedKey, sl))

\* io.ReadFull(c.bufferedRead, nonce[:]), the first nonce
ReadHeaderNonce(c, blen, s, ended, sl, r1) ==
    IF r1.err # "nil" THEN Failed(c, r1, r1.err)
    ELSE ReadHeader(c, blen, s, ended, sl, r1.data,
                    ReadFull(s, r1.used, Overhead + LenSize, ended))

\* func (c conn) unbufferedRead(b []byte)
unbufferedRead(c, blen, s, ended, sl) ==
    ReadHeaderNonce(c, blen, s, ended, sl, ReadFull(s, 0, NonceSize, ended))

\* Read after copied bytes came from c.buffer: the result u of unbufferedRead
\* is passed on, the bytes copied are those of c.buffer then those of the frame
ReadMore(c, copied, u) ==
    Ret(u.n, u.err, u.used, Take(c.buffer, copied) \o u.data, u.buffer, c.isUnread)

\* a Read that decodes a frame even when b is already full
ReadAlways(c, blen, s, ended, sl) ==
    ReadMore(c, Min(blen, Len(c.buffer)),
             unbufferedRead([c EXCEPT !.buffer = Zeros(Len(c.buffer) - Min(blen, Len(c.buffer)))],
                            blen - Min(blen, Len(c.buffer)), s, ended, sl))

\* func (c conn) Read(b []byte), len(b) = blen.  The remainder of c.buffer is
\* replaced by a fresh (zeroed) slice of the remaining length; n stays 0 when
\* no frame is decoded.
Read(c, blen, s, ended, sl) ==
    IF Min(blen, Len(c.buffer)) < blen
    THEN ReadMore(c, Min(blen, Len(c.buffer)),
                  unbufferedRead([c EXCEPT !.buffer = Zeros(Len(c.buffer) - Min(blen, Len(c.buffer)))],
                                 blen - Min(blen, Len(c.buffer)), s, ended, sl))
    ELSE Ret(0, "nil", 0, Take(c.buffer, blen), Zeros(Len(c.buffer) - blen), c.isUnread)

\* ReadByte when it called c.Read(c.lastRead), with result r: b = c.lastRead[0]
\* is the byte Read copied, or the zero of the fresh slice when it copied none
ReadByteFresh(r) ==
    Ret(IF r.data = <<>> THEN 0 ELSE Head(r.data), r.err, r.used, r.data, r.buffer, FALSE)

\* func (c conn) ReadByte(): the byte returned is field n of the result
ReadByte(c, s, ended, sl) ==
    IF ~c.isUnread
    THEN ReadByteFresh(Read([c EXCEPT !.lastRead = Zeros(1)], 1, s, ended, sl))
    ELSE Ret(Head(c.lastRead), "nil", 0, <<>>, c.buffer, FALSE)

\* func (c conn) UnreadByte()
UnreadByte(c) == Ret(0, "nil", 0, <<>>, c.buffer, TRUE)

\* a Write that announces the length of the plaintext, not of the sealed payload
OutLenPlain(b) == Len(b)
\* a Write that seals the payload under the header's nonce
PayloadNonceStale(nonce1, r) == nonce1

\* outLen := len(b) + box.Overhead
OutLen(b) == Len(b) + Overhead
\* the two rand.Read(nonce[:]) of Write, with r nonces drawn before the call:
\* each overwrites the nonce with a fresh draw
HeaderNonce(r) == NonceBytes(r + 1)
PayloadNonce(nonce1, r) == NonceBytes(r + 2)

\* func (c conn) Write(b []byte), with r nonces drawn so far; fail = 1 or 2 when
\* the first or the second rand.Read fails; down when the raw stream refuses
\* the write.  seals lists the seals performed, in order.
Write(c, b, r, fail, down) ==
    LET outLen == OutLen(b)
        nonce1 == HeaderNonce(r)
        length == PutUint32(outLen)
        hdr == SealAfterPrecomputation(length, nonce1, c.sharedKey)
        nonce2 == PayloadNonce(nonce1, r)
        body == SealAfterPrecomputation(b, nonce2, c.sharedKey)
        writebuf == nonce1 \o hdr \o nonce2 \o body
        seal1 == [key |-> c.sharedKey, nonce |-> nonce1, msg |-> length, box |-> hdr]
        seal2 == [key |-> c.sharedKey, nonce |-> nonce2, msg |-> b, box |-> body]
    IN IF fail = 1
       THEN [n |-> 0, err |-> "rand", writebuf |-> <<>>, seals |-> <<>>, draws |-> 0]
       ELSE IF fail = 2
       THEN [n |-> 0, err |-> "rand", writebuf |-> <<>>, seals |-> <<seal1>>, draws |-> 1]
       ELSE IF down
       THEN [n |-> 0, err |-> "write", writebuf |-> <<>>, seals |-> <<seal1, seal2>>,
             draws |-> 2]
       ELSE [n |-> Len(writebuf), err |-> "nil", writebuf |-> writebuf,
             seals |-> <<seal1, seal2>>, draws |-> 2]

\* ---------------------------------------------------------------- calls
\* bufferedRead pulls from the raw stream only when it holds too little
PulledBy(p, used) ==
    IF bpos[p] + used <= rpos[p] THEN {rpos[p]} ELSE Pulled(p, bpos[p] + used)

\* the record a read-family call leaves in log: at and pulled are the stream
\* position of the endpoint and of bufferedRead when the call began
Entry(op, blen, r) ==
    [op |-> op, blen |-> blen, at |-> bpos[Reader], pulled |-> rpos[Reader],
     n |-> r.n, err |-> r.err, used |-> r.used, data |-> r.data,
     buffer |-> r.buffer, isUnread |-> r.isUnread]

\* what a call of Read or ReadByte with result r does to the stream position
\* and to the record of the calls; bytes are those handed to the caller
Returned(op, blen, r, bytes) ==
    /\ r.err # "block"
    /\ bpos' = [bpos EXCEPT ![Reader] = @ + r.used]
    /\ \E k \in PulledBy(Reader, r.used) : rpos' = [rpos EXCEPT ![Reader] = k]
    /\ log' = Append(log, Entry(op, blen, r))
    /\ delivered' = delivered \o bytes

\* the byte ReadByte hands to its caller, when it reports no error
ByteOf(r) == IF r.err = "nil" THEN <<r.n>> ELSE <<>>

\* All four methods have the receiver (c conn), a copy of the conn value held
\* by the Conn interface: what they assign to c.buffer, c.isUnread and
\* c.lastRead ends with the call, and conn is left as it was.
CallRead(blen) ==
    /\ pc[Reader] = "ready" /\ nreads < MaxReads
    /\ Returned("Read", blen,
                Read(conn[Reader], blen, Avail(Reader), Ended(Reader), sealed),
                Read(conn[Reader], blen, Avail(Reader), Ended(Reader), sealed).data)
    /\ nreads' = nreads + 1
    /\ UNCHANGED <<out, inb, closed, ntamper, rnd, sealed, frames, written, wlast, nwrites>>
    /\ UNCHANGED hsVars

CallReadByte ==
    /\ pc[Reader] = "ready" /\ nreads < MaxReads
    /\ Returned("ReadByte", 1,
                ReadByte(conn[Reader], Avail(Reader), Ended(Reader), sealed),
                ByteOf(ReadByte(conn[Reader], Avail(Reader), Ended(Reader), sealed)))
    /\ nreads' = nreads + 1
    /\ UNCHANGED <<out, inb, closed, ntamper, rnd, sealed, frames, written, wlast, nwrites>>
    /\ UNCHANGED hsVars

\* an UnreadByte whose c.isUnread = true reaches the conn the interface holds
CallUnreadByteKept ==
    /\ pc[Reader] = "ready" /\ nreads < MaxReads
    /\ log' = Append(log, Entry("UnreadByte", 0, UnreadByte(conn[Reader])))
    /\ conn' = [conn EXCEPT ![Reader].isUnread = TRUE]
    /\ nreads' = nreads + 1
    /\ UNCHANGED <<out, inb, bpos, rpos, closed, ntamper, rnd, sealed, frames, written,
                   delivered, wlast, nwrites>>
    /\ UNCHANGED <<pc, keys, werr, retried>>

CallUnreadByte ==
    /\ pc[Reader] = "ready" /\ nreads < MaxReads
    /\ log' = Append(log, Entry("UnreadByte", 0, UnreadByte(conn[Reader])))
    /\ nreads' = nreads + 1
    /\ UNCHANGED <<out, inb, bpos, rpos, closed, ntamper, rnd, sealed, frames, written,
                   delivered, wlast, nwrites>>
    /\ UNCHANGED hsVars

\* Write(b) with the next len bytes of the application's stream 1, 2, 3, ...
CallWrite(len, fail) ==
    /\ pc[Writer] = "ready" /\ nwrites < MaxWrites
    /\ LET b == [i \in 1..len |-> Len(written) + i]
           w == Write(conn[Writer], b, rnd, fail, closed[Writer])
       IN /\ rnd' = rnd + w.draws
          /\ sealed' = sealed \o w.seals
          /\ out' = [out EXCEPT ![Writer] = @ \o w.writebuf]
          /\ inb' = [inb EXCEPT ![Reader] = @ \o w.writebuf]
          /\ frames' = IF w.err = "nil"
                       THEN Append(frames, [start |-> Len(out[Writer]), plain |-> b])
                       ELSE frames
          /\ written' = IF w.err = "nil" THEN written \o b ELSE written
          /\ wlast' = [op |-> "Write", blen |-> len, n |-> w.n, err |-> w.err]
    /\ nwrites' = nwrites + 1
    /\ UNCHANGED <<bpos, rpos, closed, ntamper, delivered, log, nreads>>
    /\ UNCHANGED hsVars

\* the fields of frame f in the stream towards Reader, as first and last position
HeaderAt(f) == [lo |-> f.start + NonceSize + 1, hi |-> f.start + NonceSize + Overhead + LenSize]
PayloadAt(f) ==
    [lo |-> f.start + 2 * NonceSize + Overhead + LenSize + 1,
     hi |-> f.start + 2 * NonceSize + 2 * Overhead + LenSize + Len(f.plain)]
FrameEnd(f) == PayloadAt(f).hi

\* the positions of the stream towards Reader the network alters: the first
\* byte of the sealed header and the last byte of the sealed payload of each
\* frame
FramePositions ==
    UNION {{HeaderAt(frames[k]).lo, PayloadAt(frames[k]).hi} : k \in 1..Len(frames)}

\* the positions of the stream towards p the network alters: the first and the
\* last byte of the representative
KeyPositions == {1, KeySize}

NextWrap ==
    \/ \E p \in Peer, s \in Scalars : GenerateKeys(p, s)
    \/ \E p \in Peer : GenerateKeysEntropyFailure(p)
    \/ \E p \in Peer : WrapWithKeysWrite(p)
    \/ \E p \in Peer : WrapWithKeysRead(p)
    \/ \E p \in Peer : Close(p)
    \/ \E p \in Peer, i \in KeyPositions : Tamper(p, i)
    \/ \E p \in Peer, s \in Scalars : Substitute(p, s)

SpecWrap == Init /\ [][NextWrap]_vars

\* the handshake on a raw stream that may also fail midway
NextWrapFail ==
    \/ NextWrap
    \/ \E p \in Peer, n \in {1, KeySize - 1} : Cut(p, n)

SpecWrapFail == Init /\ [][NextWrapFail]_vars

\* Both endpoints call WrapWithKeys with a key pair generated beforehand, of
\* private scalars 2 and 3.
KeyPairOf(s) ==
    LET r == ScalarBaseMult(0, 0, s) IN [pub |-> r.pub, priv |-> s, elligator |-> r.elligator]

InitWithKeys ==
    /\ pc = [p \in Peer |-> "write"]
    /\ keys = [p \in Peer |-> KeyPairOf(p + 1)]
    /\ werr = [p \in Peer |-> "nil"]
    /\ retried = [p \in Peer |-> FALSE]
    /\ conn = [p \in Peer |-> NilConn]
    /\ out = [p \in Peer |-> <<>>]
    /\ inb = [p \in Peer |-> <<>>]
    /\ bpos = [p \in Peer |-> 0]
    /\ rpos = [p \in Peer |-> 0]
    /\ closed = [p \in Peer |-> FALSE]
    /\ rnd = 0
    /\ sealed = <<>>
    /\ frames = <<>>
    /\ written = <<>>
    /\ delivered = <<>>
    /\ wlast = NoCall
    /\ log = <<>>
    /\ nwrites = 0
    /\ nreads = 0
    /\ ntamper = 0

\* the stream: whole buffers written, read with buffers of every size
Next ==
    \/ \E p \in Peer : WrapWithKeysWrite(p)
    \/ \E p \in Peer : WrapWithKeysRead(p)
    \/ \E len \in 0..MaxLen : CallWrite(len, 0)
    \/ \E blen \in 0..MaxBuf : CallRead(blen)

Spec == InitWithKeys /\ [][Next]_vars

\* the byte scanner: ReadByte and UnreadByte, mixed with one-byte Reads
NextByte ==
    \/ \E p \in Peer : WrapWithKeysWrite(p)
    \/ \E p \in Peer : WrapWithKeysRead(p)
    \/ \E len \in 0..MaxLen : CallWrite(len, 0)
    \/ CallRead(1)
    \/ CallReadByte
    \/ CallUnreadByte

SpecByte == InitWithKeys /\ [][NextByte]_vars

\* a network that alters bytes in flight
NextTamper ==
    \/ \E p \in Peer : WrapWithKeysWrite(p)
    \/ \E p \in Peer : WrapWithKeysRead(p)
    \/ \E len \in 0..MaxLen : CallWrite(len, 0)
    \/ CallRead(MaxBuf)
    \/ CallReadByte
    \/ \E i \in FramePositions \cup {1} : Tamper(Reader, i)

SpecTamper == InitWithKeys /\ [][NextTamper]_vars

\* the writing side alone, with a random source and a raw stream that may fail
NextWrite ==
    \/ \E p \in Peer : WrapWithKeysWrite(p)
    \/ \E p \in Peer : WrapWithKeysRead(p)
    \/ \E len \in 0..MaxLen, fail \in 0..2 : CallWrite(len, fail)
    \/ Close(Writer)

SpecWrite == InitWithKeys /\ [][NextWrite]_vars

\* the draw of GenerateKeys that finds a scalar with a representative
GoodDraw(p) == \E s \in Scalars : HasRepresentative(BasePoint(s)) /\ GenerateKeys(p, s)

\* the random source eventually yields a scalar that has a representative
SpecWrapFair == SpecWrap /\ \A p \in Peer : WF_vars(GoodDraw(p))

\* Both endpoints call Wrap concurrently on a reliable raw stream that takes the
\* 32 bytes of each without waiting for the peer; the random source works.
\* Each call that can take its next step takes it, and the random source
\* eventually yields a scalar that has a representative.
NextLive ==
    \/ \E p \in Peer, s \in Scalars : GenerateKeys(p, s)
    \/ \E p \in Peer : WrapWithKeysWrite(p)
    \/ \E p \in Peer : WrapWithKeysRead(p)

SpecLive ==
    /\ Init /\ [][NextLive]_vars
    /\ \A p \in Peer : /\ WF_vars(GoodDraw(p))
                       /\ WF_vars(WrapWithKeysWrite(p))
                       /\ WF_vars(WrapWithKeysRead(p))

\* The raw stream towards Reader in pieces.  Writer has finished its handshake
\* and written the frames of <<1, 2>> and <<3>>; Reader has written its
\* representative; of what Writer sent nothing has reached Reader yet.
WriterConn ==
    NewConn(KeyPairOf(2).pub, 2,
            RepresentativeToPublicKey(FeToBytes(KeyPairOf(3).elligator)),
            DeriveShared(KeyPairOf(2).pub,
                         RepresentativeToPublicKey(FeToBytes(KeyPairOf(3).elligator)), 2))
FirstWrite == Write(WriterConn, <<1, 2>>, 0, 0, FALSE)
SecondWrite == Write(WriterConn, <<3>>, FirstWrite.draws, 0, FALSE)

InitChunk ==
    /\ pc = [p \in Peer |-> IF p = Writer THEN "ready" ELSE "read"]
    /\ keys = [p \in Peer |-> KeyPairOf(p + 1)]
    /\ werr = [p \in Peer |-> "nil"]
    /\ retried = [p \in Peer |-> FALSE]
    /\ conn = [p \in Peer |-> IF p = Writer THEN WriterConn ELSE NilConn]
    /\ out = [p \in Peer |->
                 IF p = Writer
                 THEN FeToBytes(KeyPairOf(2).elligator) \o FirstWrite.writebuf
                          \o SecondWrite.writebuf
                 ELSE FeToBytes(KeyPairOf(3).elligator)]
    /\ inb = [p \in Peer |-> IF p = Writer THEN FeToBytes(KeyPairOf(3).elligator) ELSE <<>>]
    /\ bpos = [p \in Peer |-> IF p = Writer THEN KeySize ELSE 0]
    /\ rpos = [p \in Peer |-> IF p = Writer THEN KeySize ELSE 0]
    /\ closed = [p \in Peer |-> FALSE]
    /\ rnd = FirstWrite.draws + SecondWrite.draws
    /\ sealed = FirstWrite.seals \o SecondWrite.seals
    /\ frames = <<[start |-> KeySize, plain |-> <<1, 2>>],
                  [start |-> KeySize + Len(FirstWrite.writebuf), plain |-> <<3>>]>>
    /\ written = <<1, 2, 3>>
    /\ delivered = <<>>
    /\ wlast = [op |-> "Write", blen |-> 1, n |-> SecondWrite.n, err |-> SecondWrite.err]
    /\ log = <<>>
    /\ nwrites = 2
    /\ nreads = 0
    /\ ntamper = 0

\* the raw stream hands Reader the next n bytes of what Writer sent; it hands
\* over no more once it has ended
Arrive(n) ==
    /\ ~closed[Writer]
    /\ Len(inb[Reader]) < Len(out[Writer])
    /\ inb' = [inb EXCEPT ![Reader] =
                  @ \o SubSeq(out[Writer], Len(@) + 1, Min(Len(@) + n, Len(out[Writer])))]
    /\ UNCHANGED <<out, bpos, rpos, closed, ntamper>>
    /\ UNCHANGED hsVars
    /\ UNCHANGED dataVars

NextChunk ==
    \/ \E n \in {MaxChunk, Len(out[Writer])} : Arrive(n)
    \/ WrapWithKeysRead(Reader)
    \/ \E blen \in {1, MaxBuf} : CallRead(blen)

SpecChunk == InitChunk /\ [][NextChunk]_vars

\* a raw stream that arrives in pieces and may end at any point
NextShort ==
    \/ \E n \in {MaxChunk, Len(out[Writer])} : Arrive(n)
    \/ Close(Writer)
    \/ WrapWithKeysRead(Reader)
    \/ \E blen \in {1, MaxBuf} : CallRead(blen)

SpecShort == InitChunk /\ [][NextShort]_vars

\* ---------------------------------------------------------------- properties
Calls == 1..Len(log)
Frames == 1..Len(frames)
\* bytes lo..hi of the stream towards Reader are as Writer sent them
Intact(lo, hi) == SubSeq(inb[Reader], lo, hi) = SubSeq(out[Writer], lo, hi)
\* the representatives arrived as they were sent
FaithfulKeys ==
    \A p \in Peer : Take(inb[p], KeySize) = Take(out[Other(p)], KeySize)
BothReady == \A p \in Peer : pc[p] = "ready"
SameKey == BothReady /\ conn[1].sharedKey = conn[2].sharedKey
\* call i is a Read that starts at frame k, which arrived unaltered, with a
\* buffer that holds its plaintext
ReadsFrame(i, k) ==
    /\ log[i].op = "Read"
    /\ log[i].at = frames[k].start
    /\ log[i].blen >= Len(frames[k].plain)
    /\ Intact(frames[k].start + 1, FrameEnd(frames[k]))
    /\ SameKey

\* C1: on a faithful transport that carries no empty frame, the bytes delivered
\* to the reader by Read and ReadByte are, in order, a prefix of the bytes
\* written: none lost, none duplicated.
C1_StreamIntegrity ==
    (/\ inb[Reader] = out[Writer]
     /\ FaithfulKeys
     /\ \A k \in Frames : frames[k].plain # <<>>)
    => IsPrefix(delivered, written)

\* C2: a Read that starts at an unaltered frame carrying plaintext P, under the
\* same channel key, with a buffer of at least len(P) bytes, returns no error
\* and copies exactly P to the start of the buffer.
C2_FrameRoundTrip ==
    \A i \in Calls, k \in Frames :
        ReadsFrame(i, k) => log[i].err = "nil" /\ log[i].data = frames[k].plain

C2_Witness ==
    \E i \in Calls, k \in Frames :
        /\ ReadsFrame(i, k)
        /\ Len(frames[k].plain) = MaxLen
        /\ log[i].data = frames[k].plain

\* C3: after a ReadByte that returned a byte x of the stream without error and
\* an UnreadByte, the next ReadByte returns x again, without error and without
\* taking any byte of the stream.
C3_Pushback ==
    \A i \in Calls :
        (/\ i + 2 <= Len(log)
         /\ log[i].op = "ReadByte" /\ log[i].err = "nil" /\ log[i].data # <<>>
         /\ log[i + 1].op = "UnreadByte"
         /\ log[i + 2].op = "ReadByte")
        => /\ log[i + 2].err = "nil"
           /\ log[i + 2].n = log[i].n
           /\ log[i + 2].used = 0

\* C4: a Read that returns a nil error returns the number of bytes it copied
\* into the caller's buffer, and that number is within 0..len(b).
C4_ReadCount ==
    \A i \in Calls :
        (log[i].op = "Read" /\ log[i].err = "nil")
        => /\ log[i].n = Len(log[i].data)
           /\ 0 <= log[i].n /\ log[i].n <= log[i].blen

\* the call took from the stream a byte of a sealed header or sealed payload
\* that was altered in flight
TookAltered(i) ==
    \E k \in Frames :
        \E f \in {HeaderAt(frames[k]), PayloadAt(frames[k])} :
            /\ ~Intact(f.lo, f.hi)
            /\ log[i].at < f.hi /\ f.lo <= log[i].at + log[i].used

\* C5: a call that decodes a frame whose sealed header or sealed payload was
\* altered returns an error, copies nothing into the caller's buffer and puts
\* nothing into the pending buffer.
C5_TamperDetected ==
    \A i \in Calls :
        TookAltered(i) => /\ log[i].err # "nil"
                          /\ log[i].data = <<>>
                          /\ log[i].buffer = <<>>
                          /\ conn[Reader].buffer = <<>>

C5_Witness ==
    \E i \in Calls, k \in Frames :
        /\ TookAltered(i)
        /\ ~Intact(PayloadAt(frames[k]).lo, PayloadAt(frames[k]).hi)
        /\ log[i].at = frames[k].start
        /\ log[i].err = "data auth"

\* C6: once a call has returned an authentication failure, no later Read or
\* ReadByte on the connection delivers plaintext.
C6_AuthFailureFatal ==
    \A i \in Calls, j \in Calls :
        (i < j /\ log[i].err \in {"header auth", "data auth"})
        => log[j].data = <<>>

\* C7: when both handshakes have returned and the representatives arrived as
\* sent, both endpoints hold the same channel key and each one's
\* GetServerPublicKey is the decoding of the representative the other sent, the
\* other's GetPublicKey; an endpoint that received the representative of
\* another key pair holds a key different from its peer's.
C7_KeyAgreement ==
    BothReady =>
        \A p \in Peer :
            LET q == Other(p) IN
            /\ FaithfulKeys =>
                  /\ conn[p].sharedKey = conn[q].sharedKey
                  /\ GetServerPublicKey(conn[p]) =
                         RepresentativeToPublicKey(Take(out[q], KeySize))
                  /\ GetServerPublicKey(conn[p]) = GetPublicKey(conn[q])
            /\ \A s \in Scalars :
                  (/\ HasRepresentative(BasePoint(s))
                   /\ BasePoint(s) # GetPublicKey(conn[q])
                   /\ Take(inb[p], KeySize) = FeToBytes(PointToRepresentative(BasePoint(s)))
                   /\ Take(inb[q], KeySize) = Take(out[p], KeySize))
                  => conn[p].sharedKey # conn[q].sharedKey

C7_Witness ==
    /\ BothReady /\ FaithfulKeys
    /\ conn[1].privateKey # conn[2].privateKey
    /\ conn[1].sharedKey = conn[2].sharedKey

\* the stream bytes Reader's calls took
RECURSIVE UsedBy(_)
UsedBy(i) == IF i = 0 THEN 0 ELSE log[i].used + UsedBy(i - 1)

\* C8: an endpoint has written its 32-byte representative before it reads any
\* byte, the handshake takes exactly the first 32 incoming bytes as the peer's
\* representative, and the endpoint writes and decodes no frame before its
\* handshake has returned successfully.
C8_HandshakeOrder ==
    \A p \in Peer :
        /\ (rpos[p] > 0 \/ bpos[p] > 0) =>
               out[p] # <<>> /\ Take(out[p], KeySize) = FeToBytes(keys[p].elligator)
        /\ pc[p] = "ready" =>
               /\ bpos[p] = KeySize + (IF p = Reader THEN UsedBy(Len(log)) ELSE 0)
               /\ GetServerPublicKey(conn[p]) =
                      RepresentativeToPublicKey(Take(inb[p], KeySize))
        /\ pc[p] # "ready" =>
               /\ bpos[p] <= KeySize /\ conn[p] = NilConn
               /\ p = Writer => frames = <<>> /\ nwrites = 0 /\ Len(out[p]) <= KeySize
               /\ p = Reader => log = <<>>

C8_Witness ==
    /\ pc[Writer] = "ready" /\ frames # <<>>
    /\ pc[Reader] = "ready" /\ log = <<>> /\ rpos[Reader] > KeySize

\* C9: under a random source that eventually yields a scalar with a
\* representative, GenerateKeys returns; when it returns without error the
\* representative is the one of the returned public point and private scalar
\* and decodes to the public point; once it has returned, by success or by an
\* entropy failure, it draws no more.
C9_KeyGeneration ==
    /\ \A p \in Peer : <>(pc[p] # "generate")
    /\ [](\A p \in Peer :
            pc[p] \in {"write", "read", "ready"} =>
                /\ HasRepresentative(keys[p].pub)
                /\ keys[p].pub = BasePoint(keys[p].priv)
                /\ keys[p].elligator = PointToRepresentative(keys[p].pub)
                /\ RepresentativeToPublicKey(FeToBytes(keys[p].elligator)) = keys[p].pub)
    /\ [](\A p \in Peer : werr[p] = "entropy" => pc[p] = "failed")
    /\ [][\A p \in Peer :
            pc[p] # "generate" => pc'[p] # "generate" /\ keys'[p] = keys[p]]_vars

C9_Witness ==
    \E p \in Peer :
        /\ pc[p] = "write" /\ retried[p]
        /\ keys[p].pub = BasePoint(keys[p].priv)
        /\ RepresentativeToPublicKey(FeToBytes(keys[p].elligator)) = keys[p].pub

\* C10: every seal uses the nonce drawn just before it: the i-th seal of the
\* session uses the i-th value of the random source, so no two seals share a
\* nonce, and the two nonces of a frame differ.
C10_NonceFreshness ==
    /\ \A i \in 1..Len(sealed) : sealed[i].nonce = NonceBytes(i)
    /\ \A i \in 1..Len(sealed), j \in 1..Len(sealed) :
           i # j => sealed[i].nonce # sealed[j].nonce
    /\ \A k \in Frames :
           SubSeq(out[Writer], frames[k].start + 1, frames[k].start + NonceSize)
           # SubSeq(out[Writer], HeaderAt(frames[k]).hi + 1,
                    HeaderAt(frames[k]).hi + NonceSize)

C10_Witness ==
    /\ Len(frames) = MaxWrites
    /\ Len(sealed) > 2 * MaxWrites - 1

\* call i is an UnreadByte with no byte to push back: no ReadByte has returned
\* a byte since the previous UnreadByte, or ever
Misused(i) ==
    /\ log[i].op = "UnreadByte"
    /\ \/ i = 1
       \/ log[i - 1].op # "ReadByte"
       \/ log[i - 1].err # "nil"

\* C11: an UnreadByte with no byte to push back returns no error and leaves the
\* connection, the stream position and the bytes delivered as they were; the
\* ReadByte that follows it takes its byte from the stream, the first byte of
\* the frame at the read position, never a stale byte of the pushback slot.
C11_MisusedPushback ==
    /\ [](\A i \in Calls :
            Misused(i) =>
                /\ log[i].err = "nil" /\ log[i].used = 0 /\ log[i].data = <<>>
                /\ (i < Len(log) /\ log[i + 1].op = "ReadByte" /\ log[i + 1].err = "nil")
                   => /\ log[i + 1].used > 0
                      /\ \E k \in Frames :
                            /\ frames[k].start = log[i + 1].at
                            /\ frames[k].plain # <<>> => log[i + 1].n = Head(frames[k].plain))
    /\ [][(Len(log') = Len(log) + 1 /\ log'[Len(log')].op = "UnreadByte")
          => /\ conn' = conn /\ bpos' = bpos /\ rpos' = rpos
             /\ delivered' = delivered /\ inb' = inb]_vars

C11_Witness ==
    /\ Len(log) >= 3
    /\ Misused(1) /\ Misused(2)
    /\ log[3].op = "ReadByte" /\ log[3].err = "nil" /\ log[3].data # <<>>

\* the length of the frame of a plaintext of n bytes
FrameLen(n) == NonceSize + (LenSize + Overhead) + NonceSize + (n + Overhead)
\* the seal of message msg under the nonce and into the box found at the given
\* places of the stream the writer sent
SealedAs(msg, nonceLo, bx) ==
    \E i \in 1..Len(sealed) :
        /\ sealed[i].msg = msg
        /\ sealed[i].key = conn[Writer].sharedKey
        /\ sealed[i].nonce = SubSeq(out[Writer], nonceLo, nonceLo + NonceSize - 1)
        /\ sealed[i].box = SubSeq(out[Writer], bx.lo, bx.hi)

\* C12: the raw stream the writer sent is its representative followed by one
\* frame per successful Write, each of 24 + (4+16) + 24 + (len(b)+16) bytes:
\* header nonce, the seal of the 4-byte length len(b)+16 (which the decoder's
\* Uint32 reads back as len(b)+16), payload nonce, the seal of b; a Write hands
\* all of them to the stream in one step, a failed Write hands none.
C12_OneFramePerWrite ==
    /\ [](pc[Writer] = "ready" =>
            /\ Len(out[Writer]) =
                   IF frames = <<>> THEN KeySize ELSE FrameEnd(frames[Len(frames)])
            /\ \A k \in Frames :
                  /\ frames[k].start = IF k = 1 THEN KeySize ELSE FrameEnd(frames[k - 1])
                  /\ FrameEnd(frames[k]) - frames[k].start = FrameLen(Len(frames[k].plain))
                  /\ \E hdr \in {PutUint32(Len(frames[k].plain) + Overhead)} :
                        /\ Uint32(hdr) = Len(frames[k].plain) + Overhead
                        /\ SealedAs(hdr, frames[k].start + 1, HeaderAt(frames[k]))
                  /\ SealedAs(frames[k].plain, HeaderAt(frames[k]).hi + 1,
                              PayloadAt(frames[k])))
    /\ [][nwrites' = nwrites + 1 =>
            IF wlast'.err = "nil"
            THEN /\ Len(frames') = Len(frames) + 1
                 /\ frames'[Len(frames')].plain = SubSeq(written', Len(written) + 1, Len(written'))
                 /\ Len(frames'[Len(frames')].plain) = wlast'.blen
                 /\ Len(out'[Writer]) = Len(out[Writer]) + FrameLen(wlast'.blen)
                 /\ IsPrefix(out[Writer], out'[Writer])
            ELSE frames' = frames /\ out' = out]_vars

C12_Witness ==
    /\ Len(frames) = MaxWrites
    /\ Len(frames[1].plain) = MaxLen
    /\ frames[2].plain = <<>>
    /\ wlast.err = "nil"

\* the frames call i took from the stream, whole
FramesTaken(i) ==
    {k \in Frames : /\ log[i].at <= frames[k].start
                    /\ FrameEnd(frames[k]) <= log[i].at + log[i].used}

\* C13: a Read with a buffer of length 0, which the pending bytes (none) fill,
\* takes nothing from the stream; any other Read that returns no error takes
\* exactly the frame at the read position, whatever room its buffer has and
\* whatever else has arrived, and ends at the end of that frame.
C13_OneFramePerRead ==
    \A i \in Calls :
        log[i].op = "Read" =>
            /\ log[i].blen = 0 => log[i].used = 0 /\ log[i].err = "nil" /\ FramesTaken(i) = {}
            /\ (log[i].blen > 0 /\ log[i].err = "nil") =>
                  \E k \in Frames :
                      /\ FramesTaken(i) = {k}
                      /\ frames[k].start = log[i].at
                      /\ log[i].at + log[i].used = FrameEnd(frames[k])

C13_Witness ==
    /\ Len(log) = 1 /\ Len(frames) = 2
    /\ log[1].op = "Read" /\ log[1].err = "nil"
    /\ frames[1].plain # <<>> /\ frames[2].plain # <<>>
    /\ Len(frames[1].plain) + Len(frames[2].plain) <= log[1].blen
    /\ rpos[Reader] = FrameEnd(frames[2])
    /\ bpos[Reader] = FrameEnd(frames[1])

\* what the Read of call i returns when all that Writer sent is there in one
\* piece
InOnePiece(i) ==
    Read(conn[Reader], log[i].blen, Drop(out[Writer], log[i].at), FALSE, sealed)

\* C14: whatever pieces the raw stream arrives in, the handshake and every Read
\* end as they do on the whole stream in one piece: same key and peer key, same
\* bytes delivered, same error, same count, same number of stream bytes taken;
\* and they take no byte that has not arrived.
C14_ChunkingIndependent ==
    /\ pc[Reader] # "failed"
    /\ bpos[Reader] <= rpos[Reader] /\ rpos[Reader] <= Len(inb[Reader])
    /\ IsPrefix(inb[Reader], out[Writer])
    /\ pc[Reader] = "ready" =>
          /\ GetServerPublicKey(conn[Reader]) =
                 RepresentativeToPublicKey(Take(out[Writer], KeySize))
          /\ conn[Reader].sharedKey = conn[Writer].sharedKey
          /\ bpos[Reader] = KeySize + UsedBy(Len(log))
    /\ \A i \in Calls :
          /\ log[i].err = InOnePiece(i).err
          /\ log[i].data = InOnePiece(i).data
          /\ log[i].n = InOnePiece(i).n
          /\ log[i].used = InOnePiece(i).used

\* a frame was decoded while the next one had arrived in part, and in part been
\* pulled from the raw stream
C14_Witness ==
    /\ Len(log) = 1 /\ log[1].err = "nil" /\ log[1].data # <<>>
    /\ bpos[Reader] = FrameEnd(frames[1])
    /\ rpos[Reader] > bpos[Reader]
    /\ Len(inb[Reader]) < FrameEnd(frames[2])

\* the raw stream towards Reader has ended inside frame k, after at least one
\* and before the last of its bytes
EndedInside(k) ==
    /\ closed[Writer]
    /\ frames[k].start < Len(inb[Reader])
    /\ Len(inb[Reader]) < FrameEnd(frames[k])

\* C15: a Read that decodes a frame inside which the raw stream has ended
\* returns the stream's error (io.EOF or io.ErrUnexpectedEOF), copies nothing
\* to the caller's buffer and puts nothing into the pending buffer; nothing of
\* a truncated frame is delivered.
C15_ShortReadIsError ==
    \A i \in Calls, k \in Frames :
        (/\ EndedInside(k)
         /\ log[i].op = "Read" /\ log[i].blen > 0
         /\ log[i].at = frames[k].start)
        => /\ log[i].err \in {"EOF", "ErrUnexpectedEOF"}
           /\ log[i].data = <<>>
           /\ log[i].buffer = <<>>
           /\ conn[Reader].buffer = <<>>
           /\ Len(delivered) <= SumSeq([j \in 1..(k - 1) |-> Len(frames[j].plain)])

\* the stream ended inside the sealed payload of the second frame, after the
\* first frame was decoded
C15_Witness ==
    \E i \in Calls :
        /\ EndedInside(2)
        /\ Len(inb[Reader]) >= PayloadAt(frames[2]).lo
        /\ log[i].op = "Read" /\ log[i].at = frames[2].start
        /\ log[i].err = "ErrUnexpectedEOF"
        /\ delivered # <<>>

\* C16: a Wrap that failed returned no connection, and it stays so.  After a
\* failed write of the representative nothing was read; an endpoint reads only
\* after its write succeeded; after a read that the end of the stream cut short
\* fewer than 32 bytes had arrived and no key was derived; a connection exists
\* only once all 32 bytes were taken; after an entropy failure nothing was
\* written.
C16_HandshakeFailure ==
    /\ [](\A p \in Peer :
            /\ pc[p] = "failed" <=> werr[p] # "nil"
            /\ pc[p] # "ready" <=> conn[p] = NilConn
            /\ pc[p] = "ready" => bpos[p] = KeySize /\ Len(inb[p]) >= KeySize
            /\ (pc[p] = "read" \/ rpos[p] > 0 \/ bpos[p] > 0) =>
                   out[p] = FeToBytes(keys[p].elligator)
            /\ werr[p] = "write" =>
                   /\ out[p] = <<>> /\ bpos[p] = 0 /\ rpos[p] = 0 /\ closed[p]
            /\ werr[p] \in {"EOF", "ErrUnexpectedEOF"} =>
                   /\ Len(inb[p]) < KeySize /\ closed[Other(p)]
                   /\ (werr[p] = "EOF" <=> inb[p] = <<>>)
            /\ werr[p] = "entropy" =>
                   /\ out[p] = <<>> /\ inb[Other(p)] = <<>> /\ bpos[p] = 0 /\ rpos[p] = 0
            /\ werr[p] \in {"nil", "entropy", "write", "EOF", "ErrUnexpectedEOF"})
    /\ [][\A p \in Peer :
            pc[p] = "failed" =>
                /\ pc'[p] = "failed" /\ werr'[p] = werr[p] /\ conn'[p] = NilConn
                /\ out'[p] = out[p] /\ bpos'[p] = bpos[p]]_vars

\* one endpoint's handshake ended on a stream cut inside the representative,
\* the other's went through
C16_Witness ==
    \E p \in Peer :
        /\ werr[p] = "ErrUnexpectedEOF" /\ inb[p] # <<>>
        /\ pc[Other(p)] = "ready"

\* C17: a Write that returns no error returns n = len(b), the number of bytes
\* of b it accepted, never more.
C17_WriteCount ==
    (wlast.op = "Write" /\ wlast.err = "nil") => wlast.n = wlast.blen

\* C18: when both endpoints call Wrap concurrently on a reliable stream, in
\* every interleaving both calls return successfully, and each has then written
\* exactly its 32-byte representative and taken exactly the 32 bytes of the
\* peer's.
C18_HandshakeCompletes ==
    /\ <>[]BothReady
    /\ [](\A p \in Peer :
            /\ pc[p] # "failed"
            /\ pc[p] = "ready" =>
                  /\ Len(out[p]) = KeySize /\ bpos[p] = KeySize
                  /\ werr[p] = "nil" /\ conn[p] # NilConn
                  /\ GetServerPublicKey(conn[p]) = keys[Other(p)].pub)

\* both returned, one of them while the other had not yet read
C18_Witness ==
    \E p \in Peer :
        /\ pc[p] = "ready" /\ pc[Other(p)] = "read"
        /\ retried[Other(p)]
        /\ Len(out[p]) = KeySize /\ bpos[p] = KeySize

\* C19: the first Read after the handshake starts at byte 33 of the stream and
\* decodes the peer's first frame, with the same result whether the reader of
\* the handshake had pulled bytes beyond the 32nd or not; the bytes pulled are
\* taken in order, none skipped.
C19_NoByteLostAtSwitch ==
    /\ bpos[Reader] <= rpos[Reader] /\ rpos[Reader] <= Len(inb[Reader])
    /\ pc[Reader] = "ready" => bpos[Reader] = KeySize + UsedBy(Len(log))
    /\ (log # <<>> /\ log[1].op = "Read" /\ log[1].blen > 0) =>
          /\ log[1].at = KeySize
          /\ log[1].pulled >= KeySize
          /\ log[1].err = "nil"
          /\ log[1].used = FrameLen(Len(frames[1].plain))
          /\ log[1].data = Take(frames[1].plain, Min(log[1].blen, Len(frames[1].plain)))

\* the handshake's reader had pulled the whole first frame with the
\* representative, and the first Read delivered its plaintext
C19_Witness ==
    /\ log # <<>> /\ frames # <<>> /\ log[1].op = "Read"
    /\ log[1].pulled = FrameEnd(frames[1])
    /\ log[1].err = "nil"
    /\ log[1].data = frames[1].plain /\ Len(frames[1].plain) = MaxLen

\* C20: a ReadByte that returns a nil error returns a byte it took from a
\* frame, a byte the peer wrote; on a frame of empty plaintext it returns no
\* byte with a nil error.
C20_ReadByteNeverInvents ==
    \A i \in Calls :
        (log[i].op = "ReadByte" /\ log[i].err = "nil")
        => /\ log[i].data # <<>>
           /\ \E k \in 1..Len(written) : written[k] = log[i].n

====
